---- MODULE Spec2Model ----
(***************************************************************************)
(* Model of src/app.py: the AI-vision product lookup with its session      *)
(* cache (get_ai_product_info_from_image), the scoring function            *)
(* (analyze_item_with_ai_vision), the single-item handler (tab1) and the   *)
(* batch loop (tab2).                                                      *)
(*                                                                         *)
(* Python values are modelled as follows.  A str is a sequence of          *)
(* one-character strings, so that slicing and concatenation are computed.  *)
(* None is the token None.  A number is an integer amount of dollars; a    *)
(* value that may or may not be a number (the price field of an AI answer) *)
(* is a record [num, v].  The Chinese dictionary keys and labels of the    *)
(* source are written in English.                                          *)
(***************************************************************************)
EXTENDS Integers, Sequences, FiniteSets, TLC

\* ------------------------------------------------------------------ bounds
MaxRuns == 2        \* single analyses in one session
MaxRows == 3        \* rows of an uploaded table
MaxPrior == 0       \* analyses made in the session before the batch starts

\* --------------------------------------------------------------- constants
PrefixLen == 50     \* base64_image[:50]
SleepSeconds == 1   \* time.sleep(1.0)

None == "None"

Num(n) == [num |-> TRUE, v |-> n]
NotNum == [num |-> FALSE, v |-> 0]     \* a str (or None) where a number is expected

Min2(a, b) == IF a < b THEN a ELSE b
Max2(a, b) == IF a > b THEN a ELSE b

\* ------------------------------------------------------------ input values
NoImage == << >>                        \* base64_image is None or "" (both falsy)
ImgShort == <<"a", "b">>
ImgA == [k \in 1..(PrefixLen + 1) |-> IF k <= PrefixLen THEN "a" ELSE "x"]
ImgB == [k \in 1..(PrefixLen + 1) |-> IF k <= PrefixLen THEN "a" ELSE "y"]
Images == {NoImage, ImgShort, ImgA, ImgB}

EmptyText == << >>                      \* "" (or a falsy cell such as 0)
NaN == <<"float(nan)">>                 \* an empty spreadsheet cell: a float, not a str
Texts == {EmptyText, <<"c">>, <<"a", "b", "c">>}

NoKey == ""
SomeKey == "sk"
ApiKeys == {NoKey, SomeKey}

CatElectronics == "electronics/appliances (general)"
CatTools == "known tools"
CatAppliance == "specific appliances"
CatHome == "home/outdoor"
CatAccessory == "unpopular/accessories"
CatDigital == "digital/virtual goods"
CatOther == "other"
Categories == {CatElectronics, CatTools, CatAppliance, CatHome, CatAccessory,
               CatDigital, CatOther}

\* ------------------------------------------------------ the AI collaborator
\* What client.chat.completions.create + json.loads can give: an exception of
\* the call, text that is not JSON, a JSON value that is not an object, or an
\* object.  data.get(k) of an absent key is None.
RespFail(kind) ==
    [kind |-> kind, product_type |-> None, brand_name |-> None, model_name |-> None,
     price |-> NotNum, price_present |-> FALSE, substitutability |-> None,
     brand_tier |-> None, reason |-> None]

RespObject(ptype, brand, price, present, subst, tier) ==
    [kind |-> "object", product_type |-> ptype, brand_name |-> brand,
     model_name |-> "M1", price |-> price, price_present |-> present,
     substitutability |-> subst, brand_tier |-> tier, reason |-> "why"]

\* ------------------------------------------- get_ai_product_info_from_image
Truthy(s) == Len(s) > 0

Take(s, n) == SubSeq(s, 1, Min2(n, Len(s)))

cache_key(base64_image, text_input) ==
    (IF Truthy(base64_image) THEN Take(base64_image, PrefixLen) ELSE << >>)
        \o (IF Truthy(text_input) THEN text_input ELSE << >>)

InCache(cache, key) == \E e \in cache : e.key = key

CacheGet(cache, key) == (CHOOSE e \in cache : e.key = key).val

CachePut_single(cache, key, val) == {[key |-> key, val |-> val]}

CachePut(cache, key, val) ==
    {e \in cache : e.key # key} \cup {[key |-> key, val |-> val]}

brand_score_map(tier) ==
    CASE tier = "S" -> 40
      [] tier = "A" -> 30
      [] tier = "B" -> 15
      [] tier = "C" -> 0
      [] OTHER -> 0

substitutability_score_map(s) ==
    CASE s = "High" -> 10
      [] s = "Medium" -> 5
      [] s = "Low" -> 0
      [] OTHER -> 0

\* A returned tuple: arity is its length.  The 6-tuple of the missing-key
\* return has no 7th and 8th element.
Tuple(arity, ptype, brand, model, price, subst, bscore, sscore, reason) ==
    [arity |-> arity, product_type |-> ptype, brand_name |-> brand,
     model_name |-> model, price |-> price, substitutability |-> subst,
     brand_score |-> bscore, substitutability_score |-> sscore, reason |-> reason]

MissingKeyTuple == Tuple(6, None, None, "no API key", NotNum, "0", 0, 0, "")

FailTuple == Tuple(8, None, None, "AI call failed", NotNum, "0", 0, 0, "")

ResultTuple(data) ==
    Tuple(8, data.product_type, data.brand_name, data.model_name,
          IF data.price_present THEN data.price ELSE Num(0),
          data.substitutability,
          brand_score_map(IF data.brand_tier = None THEN "C" ELSE data.brand_tier),
          substitutability_score_map(IF data.substitutability = None THEN "Low"
                                     ELSE data.substitutability),
          IF data.reason = None THEN "" ELSE data.reason)

Info(kind, tuple, cache, called, hit) ==
    [kind |-> kind, tuple |-> tuple, cache |-> cache, called |-> called, hit |-> hit]

get_ai_product_info_from_image(base64_image, api_key, text_input, cache, resp) ==
    IF api_key = NoKey
    THEN Info("return", MissingKeyTuple, cache, FALSE, FALSE)
    ELSE IF text_input = NaN
    THEN Info("TypeError", FailTuple, cache, FALSE, FALSE)      \* str + float, outside the try
    ELSE LET key == cache_key(base64_image, text_input) IN
         IF InCache(cache, key)
         THEN Info("return", CacheGet(cache, key), cache, FALSE, TRUE)
         ELSE IF resp.kind # "object"
         THEN Info("return", FailTuple, cache, TRUE, FALSE)
         ELSE Info("return", ResultTuple(resp),
                   CachePut(cache, key, ResultTuple(resp)), TRUE, FALSE)

\* ---------------------------------------------- analyze_item_with_ai_vision
\* An uploaded file (or no file); encode_image_to_base64 gives the Base64 text
\* of its bytes, written here directly as the file's content.
NoFile == [present |-> FALSE, content |-> << >>]
File(b64) == [present |-> TRUE, content |-> b64]
UploadedFiles == {NoFile} \cup {File(b) : b \in Images \ {NoImage}}

encode_image_to_base64(uploaded_file) ==
    IF uploaded_file.present THEN uploaded_file.content ELSE NoImage

cat_base_score_map_nonneg(category_input) ==
    CASE category_input = CatElectronics -> 20
      [] category_input = CatTools -> 15
      [] category_input = CatAppliance -> 10
      [] category_input = CatHome -> 5
      [] OTHER -> 0

cat_base_score_map(category_input) ==
    CASE category_input = CatElectronics -> 20
      [] category_input = CatTools -> 15
      [] category_input = CatAppliance -> 10
      [] category_input = CatHome -> 5
      [] category_input = CatAccessory -> 0 - 10
      [] OTHER -> 0

\* int(x) of Python truncates toward zero; a \div b rounds down.
TruncDiv(a, b) == IF a >= 0 THEN a \div b ELSE 0 - ((0 - a) \div b)

\* int(discount_rate), discount_rate = ((market_price - my_price) / market_price) * 100
discount_rate(market_price, my_price) ==
    IF market_price > 0 /\ my_price > 0
    THEN TruncDiv(100 * (market_price - my_price), market_price)
    ELSE 0

price_score_strict(market_price, my_price) ==
    IF market_price > 0 /\ my_price > 0
    THEN IF 100 * (market_price - my_price) > 70 * market_price THEN 40
         ELSE IF 100 * (market_price - my_price) > 50 * market_price THEN 30
         ELSE IF 100 * (market_price - my_price) > 30 * market_price THEN 10
         ELSE 0
    ELSE 0

price_score(market_price, my_price) ==
    IF market_price > 0 /\ my_price > 0
    THEN IF 100 * (market_price - my_price) >= 70 * market_price THEN 40
         ELSE IF 100 * (market_price - my_price) >= 50 * market_price THEN 30
         ELSE IF 100 * (market_price - my_price) >= 30 * market_price THEN 10
         ELSE 0
    ELSE 0

value_score(market_price) ==
    IF market_price > 200 THEN 10 ELSE IF market_price > 100 THEN 5 ELSE 0

clamp_nofloor(total_score) == Min2(100, total_score)

clamp(total_score) == Min2(100, Max2(0, total_score))

SugFlagship == "S-hook (must advertise)"
SugCore == "A-profit core (list first)"
SugBundle == "B-bundle/blind box"
SugDiscard == "C-offline (give up)"
SugSentinel == "C-offline"
SugBatchFail == "failed"

suggestion_exclusive(total_score) ==
    IF total_score > 80 THEN SugFlagship
    ELSE IF total_score > 60 THEN SugCore
    ELSE IF total_score > 40 THEN SugBundle
    ELSE SugDiscard

suggestion(total_score) ==
    IF total_score >= 80 THEN SugFlagship
    ELSE IF total_score >= 60 THEN SugCore
    ELSE IF total_score >= 40 THEN SugBundle
    ELSE SugDiscard

\* The dictionary analyze_item_with_ai_vision returns.
Dict(total, sug, comment, market, note, link) ==
    [total_score |-> total, suggestion |-> sug, ai_comment |-> comment,
     market_price |-> market, price_note |-> note, link |-> link]

SentinelDict == Dict(0, SugSentinel, "AI recognition failed", 0, "N/A", "N/A")

NoDict == Dict(0, "-", "-", 0, "-", "-")

\* The local variables of one call, as far as the call got.
NoLocals ==
    [scored |-> FALSE, brand_score |-> 0, cat_score |-> 0, price_score |-> 0,
     value_score |-> 0, substitutability_score |-> 0, raw_score |-> 0,
     total_score |-> 0, suggestion |-> "-", discount_rate |-> 0, market_price |-> 0]

Locals(t, category_input, my_price) ==
    LET market_price == t.price.v
        raw == t.brand_score + cat_base_score_map(category_input)
                 + price_score(market_price, my_price) + value_score(market_price)
                 + t.substitutability_score
    IN [scored |-> TRUE, brand_score |-> t.brand_score,
        cat_score |-> cat_base_score_map(category_input),
        price_score |-> price_score(market_price, my_price),
        value_score |-> value_score(market_price),
        substitutability_score |-> t.substitutability_score,
        raw_score |-> raw, total_score |-> clamp(raw),
        suggestion |-> suggestion(clamp(raw)),
        discount_rate |-> discount_rate(market_price, my_price),
        market_price |-> market_price]

\* outcome: "returned" (a dictionary), "none" (return None) or "raised".
Analysis(outcome, error, dict, locals, info) ==
    [outcome |-> outcome, error |-> error, dict |-> dict, locals |-> locals,
     cache |-> info.cache, called |-> info.called, hit |-> info.hit]

NoInfo(cache) == Info("return", FailTuple, cache, FALSE, FALSE)

analyze_item_with_ai_vision(product_name_input, category_input, my_price, api_key, uploaded_image, cache, resp) ==
    LET base64_image == IF uploaded_image.present
                        THEN encode_image_to_base64(uploaded_image) ELSE NoImage IN
    IF ~(Truthy(base64_image) \/ Truthy(product_name_input))
    THEN Analysis("none", "", NoDict, NoLocals, NoInfo(cache))
    ELSE LET info == get_ai_product_info_from_image(base64_image, api_key,
                                                    product_name_input, cache, resp)
             t == info.tuple
         IN IF info.kind # "return"
            THEN Analysis("raised", info.kind, NoDict, NoLocals, info)
            ELSE IF t.arity # 8                      \* unpacking 6 values into 8 names
            THEN Analysis("raised", "ValueError", NoDict, NoLocals, info)
            ELSE IF t.product_type = None
            THEN Analysis("returned", "", SentinelDict, NoLocals, info)
            ELSE IF ~t.price.num                     \* market_price > 0 on a str
            THEN Analysis("raised", "TypeError", NoDict, NoLocals, info)
            ELSE \* the return statement reads price_note, which is never assigned
                 Analysis("raised", "NameError", NoDict,
                          Locals(t, category_input, my_price), info)

\* ------------------------------------------------------------------ inputs
\* Answers of the AI collaborator tried in a session.
Responses ==
    {RespFail("exception"), RespFail("not json"), RespFail("not object"),
     RespObject(None, "Acme", Num(20), TRUE, "Low", "A"),
     RespObject("Widget", "Acme", Num(250), TRUE, "Low", "S"),
     RespObject("Widget", "Acme", NotNum, TRUE, "Medium", "A"),
     RespObject("Widget", "Acme", Num(20), TRUE, "Huge", "Z")}

NoResp == RespFail("none")

\* The item offered for a single analysis in a session: category and acquisition
\* price (the scorings of all categories and prices are those of SpecScore).
Offers == {[category |-> CatAccessory, my_price |-> 2]}

\* Rows of an uploaded table.  price is the cell of the price column: a
\* number, or text that float() rejects.
Row(name, category, price) == [name |-> name, category |-> category, price |-> price]

BatchRows ==
    {Row(<<"c">>, CatAccessory, Num(2)),
     Row(<<"a", "b", "c">>, CatElectronics, Num(10)),
     Row(<<"c">>, CatElectronics, NotNum),
     Row(EmptyText, CatHome, Num(10)),
     Row(NaN, CatHome, Num(10))}

ColName == "product name"
ColCategory == "category"
ColPrice == "price"
required_cols == {ColName, ColCategory, ColPrice}

ColumnSets == {required_cols} \cup {required_cols \ {c} : c \in required_cols}

\* Answers of the AI collaborator tried in a batch.
BatchResponses ==
    {r \in Responses : r.kind \in {"exception", "object"} /\ r.brand_tier # "Z"}

AllKeys == {cache_key(b, t) : b \in Images, t \in Texts}

\* ------------------------------------------------------------------- state
VARIABLES
    ai_cache,       \* st.session_state.ai_cache: a set of [key, val]
    api_calls,      \* calls of client.chat.completions.create made, per cache key
    stored_by,      \* for each write of ai_cache: its key and the image and text of the call
    last,           \* the call of analyze_item_with_ai_vision last made by the running handler
    runs,           \* analyses asked for so far
    df,             \* the uploaded table of the batch
    pc,             \* position of the batch handler
    i,              \* rows of df the loop has started
    results,        \* the list results
    pauses,         \* seconds slept in this batch
    batch_calls,    \* calls of the AI made in this batch
    raised,         \* the exception that ended the batch handler, "" if none
    cancel          \* the user asked for the batch to be cancelled

vars == <<ai_cache, api_calls, stored_by, last, runs, df, pc, i, results, pauses,
          batch_calls, raised, cancel>>

batch_vars == <<df, pc, i, results, pauses, batch_calls, raised, cancel>>

Last(via, name, category, my_price, api_key, uploaded_image, resp, a) ==
    [via |-> via, name |-> name, category |-> category, my_price |-> my_price,
     api_key |-> api_key, uploaded_image |-> uploaded_image,
     resp |-> IF a.called THEN resp ELSE NoResp,
     outcome |-> a.outcome, error |-> a.error, dict |-> a.dict,
     locals |-> a.locals, called |-> a.called, hit |-> a.hit]

NoAnalysis == Analysis("-", "", NoDict, NoLocals, NoInfo({}))

NoLast == Last("-", EmptyText, CatOther, 0, NoKey, NoFile, NoResp, NoAnalysis)

\* The table read by pd.read_excel: its columns, its number of rows, and the
\* rows iterrows has yielded so far (the table does not change during the loop).
NoTable == [columns |-> required_cols, n |-> 0, rows |-> << >>]

Init ==
    /\ ai_cache = {}
    /\ api_calls = [k \in AllKeys |-> 0]
    /\ stored_by = {}
    /\ last = NoLast
    /\ runs = 0
    /\ df = NoTable
    /\ pc = "idle"
    /\ i = 0
    /\ results = << >>
    /\ pauses = 0
    /\ batch_calls = 0
    /\ raised = ""
    /\ cancel = FALSE

KeyOf(name, uploaded_image) == cache_key(encode_image_to_base64(uploaded_image), name)

Count(calls, a, name, uploaded_image) ==
    IF a.called
    THEN [calls EXCEPT ![KeyOf(name, uploaded_image)] = @ + 1]
    ELSE calls

\* The write of line 112, remembered with the arguments of the call that made it.
Stored(by, a, name, uploaded_image) ==
    IF a.called /\ InCache(a.cache, KeyOf(name, uploaded_image))
    THEN by \cup {[key |-> KeyOf(name, uploaded_image),
                   image |-> encode_image_to_base64(uploaded_image),
                   text |-> name]}
    ELSE by

\* A call of analyze_item_with_ai_vision (lines 120-190) with any arguments.
CallAnalyze(name, offer, api_key, uploaded_image, resp) ==
    /\ pc = "idle"
    /\ runs < MaxRuns
    /\ LET a == analyze_item_with_ai_vision(name, offer.category, offer.my_price,
                                            api_key, uploaded_image, ai_cache, resp)
       IN /\ ai_cache' = a.cache
          /\ api_calls' = Count(api_calls, a, name, uploaded_image)
          /\ stored_by' = Stored(stored_by, a, name, uploaded_image)
          /\ last' = Last("call", name, offer.category, offer.my_price, api_key,
                          uploaded_image, resp, a)
    /\ runs' = runs + 1
    /\ UNCHANGED batch_vars

\* ---------------------------------------------------- the batch loop (tab2)
columns_ok_first(table) == ColName \in table.columns

columns_ok(table) == \A col \in required_cols : col \in table.columns

\* One element of results: the row's own cells and the columns added to it.
Combined(row, total, sug, comment, note, my_price) ==
    [row |-> row, total_score |-> total, suggestion |-> sug, ai_comment |-> comment,
     price_note |-> note, my_price |-> my_price]

CombinedOf(row, a) ==
    IF a.outcome = "returned"
    THEN Combined(row, a.dict.total_score, a.dict.suggestion, a.dict.ai_comment,
                  a.dict.price_note, row.price.v)
    ELSE Combined(row, 0, SugBatchFail, "API call failed", "failed", row.price.v)

append_front(list, x) == <<x>> \o list

append(list, x) == Append(list, x)

\* The button of tab2 with a file and a key (lines 270-281): read the table,
\* check the columns, st.stop() if one is missing.
BatchStart(columns, n) ==
    /\ pc = "idle"
    /\ runs <= MaxPrior
    /\ df' = [columns |-> columns, n |-> n, rows |-> << >>]
    /\ results' = << >>
    /\ pc' = IF columns_ok(df') THEN "loop" ELSE "stopped"
    /\ i' = 0
    /\ pauses' = 0
    /\ batch_calls' = 0
    /\ raised' = ""
    /\ cancel' = FALSE
    /\ last' = NoLast
    /\ UNCHANGED <<ai_cache, api_calls, stored_by, runs>>

Abort(error) ==
    /\ pc' = "aborted"
    /\ raised' = error
    /\ UNCHANGED results

\* One iteration of the loop up to results.append (lines 283-319).
BatchRow(row, resp) ==
    /\ pc = "loop"
    /\ i < df.n
    /\ i' = i + 1
    /\ df' = [df EXCEPT !.rows = Append(@, row)]
    /\ UNCHANGED <<pauses, runs, cancel>>
    /\ IF ColName \notin df.columns \/ ColPrice \notin df.columns
       THEN /\ Abort("KeyError")
            /\ UNCHANGED <<ai_cache, api_calls, stored_by, last, batch_calls>>
       ELSE IF ~row.price.num
       THEN /\ Abort("ValueError")                     \* float(row[price])
            /\ UNCHANGED <<ai_cache, api_calls, stored_by, last, batch_calls>>
       ELSE LET category == IF ColCategory \in df.columns THEN row.category
                            ELSE CatElectronics
                a == analyze_item_with_ai_vision(row.name, category, row.price.v,
                                                 SomeKey, NoFile, ai_cache, resp)
            IN /\ ai_cache' = a.cache
               /\ api_calls' = Count(api_calls, a, row.name, NoFile)
               /\ stored_by' = Stored(stored_by, a, row.name, NoFile)
               /\ batch_calls' = IF a.called THEN batch_calls + 1 ELSE batch_calls
               /\ last' = Last("batch", row.name, category, row.price.v, SomeKey,
                               NoFile, resp, a)
               /\ IF a.outcome = "raised"
                  THEN Abort(a.error)
                  ELSE /\ results' = append(results, CombinedOf(row, a))
                       /\ pc' = "sleep"
                       /\ UNCHANGED raised

BatchSleep_skipped ==
    /\ pc = "sleep"
    /\ pc' = "loop"
    /\ UNCHANGED <<ai_cache, api_calls, stored_by, last, runs, df, i, results, pauses,
                   batch_calls, raised, cancel>>

\* time.sleep(1.0) at the end of the iteration (line 320).
BatchSleep ==
    /\ pc = "sleep"
    /\ pauses' = pauses + SleepSeconds
    /\ pc' = "loop"
    /\ UNCHANGED <<ai_cache, api_calls, stored_by, last, runs, df, i, results, batch_calls,
                   raised, cancel>>

\* The loop is exhausted: the results are shown and exported (lines 322-330).
BatchFinish ==
    /\ pc = "loop"
    /\ i = df.n
    /\ pc' = "done"
    /\ UNCHANGED <<ai_cache, api_calls, stored_by, last, runs, df, i, results, pauses,
                   batch_calls, raised, cancel>>

\* The user asks for the running batch to be cancelled.
RequestCancel ==
    /\ pc \in {"loop", "sleep"}
    /\ ~cancel
    /\ cancel' = TRUE
    /\ UNCHANGED <<ai_cache, api_calls, stored_by, last, runs, df, pc, i, results, pauses,
                   batch_calls, raised>>

Next ==
    \/ \E name \in Texts, offer \in Offers, api_key \in ApiKeys,
          uploaded_image \in UploadedFiles :
          \E resp \in (IF api_key = NoKey THEN {NoResp} ELSE Responses) :
             CallAnalyze(name, offer, api_key, uploaded_image, resp)
    \/ \E columns \in ColumnSets, n \in 0..MaxRows : BatchStart(columns, n)
    \/ \E row \in BatchRows, resp \in BatchResponses : BatchRow(row, resp)
    \/ BatchSleep
    \/ BatchFinish
    \/ RequestCancel

Spec == Init /\ [][Next]_vars

\* --------------------------------------------------- one call, all scorings
\* A single call of analyze_item_with_ai_vision in a fresh session, with the
\* answers and prices that produce every combination of the five scores.
ScorePrices == {0, 2, 10, 25, 30, 50, 70, 100, 150, 200}

ScoreOffers == [category : Categories, my_price : ScorePrices]

ScoreResponses ==
    {RespFail("exception")} \cup
    {RespObject("Widget", "Acme", Num(m), TRUE, subst, tier) :
        m \in {0, 4, 20, 100, 150, 250},
        subst \in {"High", "Medium", "Low", "Huge", None},
        tier \in {"S", "A", "B", "C", "Z", None}}

ScoreCall(offer, resp) ==
    /\ runs = 0
    /\ CallAnalyze(<<"c">>, offer, SomeKey, NoFile, resp)

NextScore == \E offer \in ScoreOffers, resp \in ScoreResponses : ScoreCall(offer, resp)

SpecScore == Init /\ [][NextScore]_vars

\* ------------------------------------------------------------------ claims

\* C1: every total score the scoring function computes or returns, on the
\* scoring path and on the failure-sentinel path, is an integer in 0..100,
\* whatever the five component scores sum to.
C1_TotalScoreBounded ==
    /\ last.locals.scored => last.locals.total_score \in 0..100
    /\ last.locals.scored =>
          last.locals.raw_score = last.locals.brand_score + last.locals.cat_score
              + last.locals.price_score + last.locals.value_score
              + last.locals.substitutability_score
    /\ last.outcome = "returned" => last.dict.total_score \in 0..100

C1_Witness ==
    /\ last.locals.scored
    /\ last.locals.raw_score < 0
    /\ last.locals.total_score = 0

\* C2: a row of the batch whose processing fails (here: a price cell that is
\* not a number) gets a failure result row with total score 0 at its place,
\* and the loop goes on.
C2_BatchIsolation ==
    \A k \in 1..Len(df.rows) :
        ~df.rows[k].price.num =>
            /\ pc # "aborted"
            /\ Len(results) >= k
            /\ results[k].total_score = 0
            /\ results[k].suggestion \in {SugSentinel, SugBatchFail}

\* C3: a call of analyze_item_with_ai_vision that has a product name or an
\* image never raises: it returns a breakdown or the flagged failure result.
C3_NeverRaises ==
    last.outcome \notin {"-", "none"} => last.outcome = "returned"

\* C4: when the AI call fails or no key is configured, the item is scored
\* from the market price 2 x acquisition price, labelled HeuristicFallback.
C4_HeuristicFallback ==
    (/\ last.outcome \notin {"-", "none"}
     /\ \/ last.api_key = NoKey
        \/ last.called /\ last.resp.kind \in {"exception", "not json", "not object"})
    => /\ last.outcome = "returned"
       /\ last.dict.market_price = 2 * last.my_price
       /\ last.dict.link = "HeuristicFallback"
       /\ last.dict.total_score =
             clamp(cat_base_score_map(last.category)
                   + price_score(2 * last.my_price, last.my_price)
                   + value_score(2 * last.my_price))

\* C5: for one cache key the AI service is invoked at most once in a
\* session, whatever the outcome of the first resolution.
C5_CacheIdempotence ==
    \A k \in AllKeys : api_calls[k] <= 1

\* C6: once cancellation is requested, the batch loop starts no further item
\* and leaves the result rows as they are.
C6_Cancellation ==
    [][cancel => (i' = i /\ results' = results)]_vars

\* C7: a table that lacks a required column stops the batch before any row is
\* processed: no row started, no analysis, no AI call, no pause, no result row.
C7_FailFast ==
    ~(required_cols \subseteq df.columns) =>
        /\ pc = "stopped"
        /\ i = 0
        /\ df.rows = << >>
        /\ last = NoLast
        /\ batch_calls = 0
        /\ pauses = 0
        /\ results = << >>

C7_Witness ==
    /\ pc = "stopped"
    /\ ColCategory \notin df.columns
    /\ df.n > 0

\* C8: the result rows are always the rows read so far, in input order, one
\* for one; when the loop has finished there are as many as input rows.
C8_InputOrder ==
    /\ Len(results) <= Len(df.rows)
    /\ \A k \in 1..Len(results) : results[k].row = df.rows[k]
    /\ pc \in {"loop", "sleep", "done"} => Len(results) = i
    /\ pc = "done" => Len(results) = df.n

C8_Witness ==
    /\ pc = "done"
    /\ Len(results) >= 2
    /\ results[1].row # results[2].row

\* C9: every item the loop has completed is followed by one pause of the fixed
\* interval before the next item can start, whatever answered the item.
C9_Throttle ==
    /\ pc \in {"loop", "done"} => pauses = SleepSeconds * Len(results)
    /\ pc = "sleep" => pauses = SleepSeconds * (Len(results) - 1)

C9_Witness ==
    /\ pc = "loop"
    /\ Len(results) = 2
    /\ last.hit
    /\ pauses = 2 * SleepSeconds

\* C10: an answer of the AI that is malformed or outside the schema is a
\* strategy failure: the call gives the failure result, nothing is cached for
\* it and nothing is raised in the scoring step.
C10_AIBoundary ==
    LET resp == last.resp
        Conforming == /\ resp.kind = "object"
                      /\ resp.price_present /\ resp.price.num
                      /\ resp.substitutability \in {"High", "Medium", "Low"}
                      /\ resp.brand_tier \in {"S", "A", "B", "C"}
    IN (last.called /\ ~Conforming) =>
          /\ last.outcome = "returned"
          /\ last.dict = SentinelDict
          /\ ~InCache(ai_cache, KeyOf(last.name, last.uploaded_image))

\* C11: the recommendation depends on the clamped total score only, by
\* inclusive lower bounds: 80..100 flagship, 60..79 core profit, 40..59 bundle
\* filler, 0..39 discard; the failure sentinel (score 0) is a discard.
C11_Recommendation ==
    /\ last.locals.scored =>
          LET t == last.locals.total_score
              sug == last.locals.suggestion
          IN /\ t \in 80..100 <=> sug = SugFlagship
             /\ t \in 60..79 <=> sug = SugCore
             /\ t \in 40..59 <=> sug = SugBundle
             /\ t \in 0..39 <=> sug = SugDiscard
    /\ last.outcome = "returned" =>
          last.dict.total_score = 0 /\ last.dict.suggestion = SugSentinel

C11_Witness ==
    /\ last.locals.scored
    /\ last.locals.raw_score = 80
    /\ last.locals.suggestion = SugFlagship

\* C12: the price-advantage score is the step function of the discount rate
\* (market - acquisition) / market x 100: 40 from 70 up, 30 from 50, 10 from
\* 30, else 0; the rate and the score are 0 when either price is not
\* positive, and a negative rate is kept as it is and scores 0.  (A rate of
\* at least 70 means acquisition <= 30% of market, and so on.)
C12_PriceAdvantage ==
    last.locals.scored =>
        LET m == last.locals.market_price
            p == last.my_price
            d == last.locals.discount_rate
            ps == last.locals.price_score
        IN IF m > 0 /\ p > 0
           THEN /\ ps = 40 <=> 10 * p <= 3 * m
                /\ ps = 30 <=> (3 * m < 10 * p /\ 10 * p <= 5 * m)
                /\ ps = 10 <=> (5 * m < 10 * p /\ 10 * p <= 7 * m)
                /\ ps = 0 <=> 7 * m < 10 * p
                /\ p <= m => (d * m <= 100 * (m - p) /\ 100 * (m - p) < (d + 1) * m)
                /\ p > m => (d <= 0 /\ (d - 1) * m < 100 * (m - p)
                                    /\ 100 * (m - p) <= d * m)
           ELSE ps = 0 /\ d = 0

C12_Witness ==
    /\ last.locals.scored
    /\ last.locals.market_price = 100
    /\ last.my_price = 25
    /\ last.locals.discount_rate = 75
    /\ last.locals.price_score = 40

\* C13 as stated: the category score is the table electronics 20, tools 15,
\* appliances 10, digital/virtual goods 5, home/outdoor 5, accessories -10,
\* and 0 for any other category.
C13_TableWithDigital ==
    last.locals.scored =>
        last.locals.cat_score =
            (CASE last.category = CatElectronics -> 20
               [] last.category = CatTools -> 15
               [] last.category = CatAppliance -> 10
               [] last.category = CatDigital -> 5
               [] last.category = CatHome -> 5
               [] last.category = CatAccessory -> 0 - 10
               [] OTHER -> 0)

\* C13 amended: the category score is the table electronics 20, tools 15,
\* appliances 10, home/outdoor 5, accessories -10, and 0 for any other
\* category, digital/virtual goods included; the negative value enters the
\* sum unchanged and only the sum is clamped.
C13_CategoryTable ==
    last.locals.scored =>
        LET cs == last.locals.cat_score
            raw == last.locals.raw_score
        IN /\ last.category = CatElectronics => cs = 20
           /\ last.category = CatTools => cs = 15
           /\ last.category = CatAppliance => cs = 10
           /\ last.category = CatHome => cs = 5
           /\ last.category = CatAccessory => cs = 0 - 10
           /\ last.category \in {CatDigital, CatOther} => cs = 0
           /\ raw = last.locals.brand_score + cs + last.locals.price_score
                      + last.locals.value_score + last.locals.substitutability_score
           /\ last.locals.total_score =
                 (IF raw < 0 THEN 0 ELSE IF raw > 100 THEN 100 ELSE raw)

C13_Witness ==
    /\ last.locals.scored
    /\ last.category = CatAccessory
    /\ last.locals.cat_score = 0 - 10
    /\ last.locals.price_score = 30
    /\ last.locals.raw_score = 20
    /\ last.locals.total_score = 20

\* C14: an answer from the cache is the entry an earlier call with the same
\* image and the same text stored, never an entry of another input.
C14_HitSameInput ==
    last.hit =>
        [key |-> KeyOf(last.name, last.uploaded_image),
         image |-> encode_image_to_base64(last.uploaded_image),
         text |-> last.name] \in stored_by

\* C15: the session cache only grows and is write-once: every step keeps each
\* entry with its key and value, no key ever has two entries, and a call that
\* ends in the missing-key result or in the AI-failure result leaves the cache
\* as it was.
C15_WriteOnce ==
    [][/\ \A e \in ai_cache : e \in ai_cache'
       /\ \A e1, e2 \in ai_cache' : e1.key = e2.key => e1 = e2
       /\ ((runs' # runs \/ i' # i)
           /\ (last'.api_key = NoKey
               \/ (last'.called /\ last'.resp.kind # "object")))
          => ai_cache' = ai_cache]_vars

C15_Witness ==
    /\ Cardinality(ai_cache) >= 1
    /\ last.called
    /\ last.resp.kind = "exception"
    /\ InCache(ai_cache, KeyOf(last.name, last.uploaded_image)) = FALSE

====
